---- MODULE Spec2Model ----
(***************************************************************************)
(* Agentforce streaming bridge: the OAuth token cache (auth_manager.py),   *)
(* the authenticated request with its single retry and the SSE stream      *)
(* processor (agentforce_client.py), and the tool that owns the session    *)
(* (main.py).                                                              *)
(*                                                                         *)
(* Three specifications share the module:                                  *)
(*   SpecAuth  one task issuing _authenticated_request calls in sequence   *)
(*   SpecConc  two tasks calling get_valid_token on the shared AuthManager *)
(*   Spec      one turn of run_ask_agentforce_stream / stream_message      *)
(***************************************************************************)
EXTENDS Integers, Sequences, FiniteSets, TLC

(***************************************************************************)
(* Bounds of the model                                                     *)
(***************************************************************************)
\* latest clock value the model lets time.time() reach
MaxTime == 90
\* lines the server sends in one turn, over all its response streams
MaxLines == 3
\* stream_message calls of one turn (the first send and its continuations)
MaxCalls == 2

(***************************************************************************)
(* Program constants                                                       *)
(***************************************************************************)
\* auth_manager.py:32  self._access_token = None
NoToken == 0
\* auth_manager.py:45  "Refresh 60s before actual expiry"
RefreshSkew == 60
\* auth_manager.py:79  token_data.get("expires_in", 3600)
DefaultExpiresIn == 3600
\* agentforce_client.py:74  response.status_code == 401
Unauthorized == 401

(***************************************************************************)
(* Inputs of the token endpoint and of the API                             *)
(***************************************************************************)
\* access_token values the token endpoint may issue
Tokens == {1, 2}
\* expires_in values the token endpoint may carry (both sides of the skew)
ExpiresInSamples == {60, 61, 90, 91}
\* the clock advances in steps of this many seconds while a task is suspended
TickSteps == {30}
\* ways a token request fails, by the line of _fetch_new_token that raises
FailKinds == {"http_error", "network", "bad_json", "no_access_token"}
\* HTTP statuses of the Agentforce API
Statuses == {200, 401, 500}

TokenResponses ==
    {[kind |-> "ok", token |-> tv, has |-> TRUE, expires_in |-> e] :
        tv \in Tokens, e \in ExpiresInSamples}
    \cup {[kind |-> "ok", token |-> tv, has |-> FALSE, expires_in |-> 0] : tv \in Tokens}
    \cup {[kind |-> "bad_expires", token |-> tv, has |-> TRUE, expires_in |-> 0] :
            tv \in Tokens}
    \cup {[kind |-> k, token |-> NoToken, has |-> FALSE, expires_in |-> 0] :
            k \in FailKinds}

VARIABLES
    \* ---- AuthManager (shared by the three specifications)
    access_token,   \* self._access_token, NoToken for None
    expires_at,     \* self._expires_at
    now,            \* time.time()
    \* ---- one _authenticated_request call (SpecAuth)
    pc,             \* position of the call
    site,           \* which call of the token code is running: first, forced, after
    headers,        \* the token in headers["Authorization"]
    sent,           \* Authorization tokens of the API requests sent by this call
    resps,          \* statuses of the API responses received by this call
    tokenReqs,      \* all POSTs to the token endpoint, in order, as
                    \* [by |-> site, at |-> number of API requests sent before it]
    gvt,            \* the last get_valid_token call: what it saw and what it did
    err,            \* the error the call raised, "" for none
    \* ---- two callers of get_valid_token (SpecConc)
    cpc,            \* position of each caller
    cseen,          \* what each caller's check at line 45 saw
    creqs,          \* token requests each caller's current call has made
    cret,           \* the value each caller's call returned
    overlap,        \* the two current calls were in get_valid_token together
    \* ---- one turn of the tool (Spec)
    ctx,            \* a Context is attached; FALSE: stream_message is called with ctx=None
    mpc,            \* position of ask_agentforce_stream / of the direct caller
    session_id,     \* session_id of ask_agentforce_stream, "" for None
    calls,          \* every stream_message call of the turn, in the order opened
    full_response,  \* the chunks the top-level consumer has received, in order
    notices,        \* ProgressIndicator messages forwarded through ctx.info
    elicited,       \* ctx.elicit calls and their answers
    ended,          \* end_session attempts: [session, ok]
    ctxlog,         \* ctx.info / ctx.error / ctx.warning calls of main.py
    pending         \* an exception that is unwinding through the finally block

authState == <<access_token, expires_at, now>>
reqVars   == <<pc, site, headers, sent, resps, tokenReqs, gvt, err>>
concVars  == <<cpc, cseen, creqs, cret, overlap>>
turnVars  == <<ctx, mpc, session_id, calls, full_response, notices, elicited, ended,
               ctxlog, pending>>
authAll   == <<authState, reqVars, concVars>>

(***************************************************************************)
(* auth_manager.py                                                         *)
(***************************************************************************)
TokenIsValid_AtBoundary(tok, exp, t) == tok # NoToken /\ exp >= t + RefreshSkew

\* line 45: self._access_token and self._expires_at > time.time() + 60
TokenIsValid(tok, exp, t) == tok # NoToken /\ exp > t + RefreshSkew

\* line 79: token_data.get("expires_in", 3600)
ExpiresInOf(resp) == IF resp.has THEN resp.expires_in ELSE DefaultExpiresIn

\* lines 68-90: what one token response does to the cache.  raise_for_status,
\* response.json() and token_data["access_token"] raise before anything is
\* assigned; an expires_in that cannot be added to time.time() raises at
\* line 80, after line 78 has replaced the token.
FetchNewToken(resp, tok, exp, t) ==
    CASE resp.kind = "ok" ->
            [access_token |-> resp.token, expires_at |-> t + ExpiresInOf(resp),
             raised |-> FALSE]
      [] resp.kind = "bad_expires" ->
            [access_token |-> resp.token, expires_at |-> exp, raised |-> TRUE]
      [] OTHER ->
            [access_token |-> tok, expires_at |-> exp, raised |-> TRUE]

\* time passes while a task is suspended in an await
Tick ==
    /\ \E d \in TickSteps :
        /\ now + d <= MaxTime
        /\ now' = now + d
    /\ UNCHANGED <<access_token, expires_at>>

(***************************************************************************)
(* agentforce_client.py: _authenticated_request, one task (SpecAuth)       *)
(***************************************************************************)
\* httpx raise_for_status: only a 2xx response passes
IsSuccess(status) == status >= 200 /\ status <= 299

NextAfterResponse_RetryAgain(attempt, status) ==
    IF status = Unauthorized THEN "forced"
    ELSE IF IsSuccess(status) THEN "returned" ELSE "raised"

\* lines 74-85: the 401 branch exists for the first response only; every
\* response then goes through raise_for_status
NextAfterResponse(attempt, status) ==
    IF attempt = 1 /\ status = Unauthorized THEN "forced"
    ELSE IF IsSuccess(status) THEN "returned" ELSE "raised"

NoGvt == [tok0 |-> NoToken, exp0 |-> 0, t0 |-> 0, n0 |-> 0, status |-> "none",
          ret |-> NoToken, fetched |-> NoToken]

\* where get_valid_token returns to: line 64 or line 79
AfterToken(s) == IF s = "first" THEN "send1" ELSE "send2"

\* line 63: a call starts; line 64 enters get_valid_token
Call ==
    /\ pc = "idle"
    /\ pc' = "gvt"
    /\ site' = "first"
    /\ headers' = NoToken
    /\ sent' = <<>>
    /\ resps' = <<>>
    /\ tokenReqs' = <<>>
    /\ gvt' = NoGvt
    /\ err' = ""
    /\ UNCHANGED <<authState, concVars, turnVars>>

\* auth_manager.py 45-46: the cached token is returned
GetValidTokenCached ==
    /\ pc = "gvt"
    /\ TokenIsValid(access_token, expires_at, now)
    /\ gvt' = [tok0 |-> access_token, exp0 |-> expires_at, t0 |-> now,
               n0 |-> Len(tokenReqs), status |-> "returned", ret |-> access_token, fetched |-> NoToken]
    /\ headers' = access_token
    /\ pc' = AfterToken(site)
    /\ UNCHANGED <<authState, site, sent, resps, tokenReqs, err, concVars, turnVars>>

\* auth_manager.py 45, 48, 70: the check fails and the token request is sent
GetValidTokenStale ==
    /\ pc = "gvt"
    /\ ~TokenIsValid(access_token, expires_at, now)
    /\ gvt' = [tok0 |-> access_token, exp0 |-> expires_at, t0 |-> now,
               n0 |-> Len(tokenReqs), status |-> "running", ret |-> NoToken, fetched |-> NoToken]
    /\ tokenReqs' = Append(tokenReqs, [by |-> site, at |-> Len(sent),
                                       tok |-> access_token, exp |-> expires_at])
    /\ pc' = "fetch"
    /\ UNCHANGED <<authState, site, headers, sent, resps, err, concVars, turnVars>>

\* agentforce_client.py 77: the forced refresh sends its token request
ForcedFetch ==
    /\ pc = "forced"
    /\ site' = "forced"
    /\ tokenReqs' = Append(tokenReqs, [by |-> "forced", at |-> Len(sent),
                                       tok |-> access_token, exp |-> expires_at])
    /\ pc' = "fetch"
    /\ UNCHANGED <<authState, headers, sent, resps, gvt, err, concVars, turnVars>>

\* auth_manager.py 70-83 and 49: the token response arrives
FetchResponse ==
    /\ pc = "fetch"
    /\ \E resp \in TokenResponses :
        LET r == FetchNewToken(resp, access_token, expires_at, now) IN
        /\ access_token' = r.access_token
        /\ expires_at' = r.expires_at
        /\ IF r.raised
           THEN /\ pc' = "raised"
                /\ err' = "AuthError"
                /\ gvt' = IF site = "forced" THEN gvt
                          ELSE [gvt EXCEPT !.status = "raised"]
                /\ UNCHANGED <<site, headers>>
           ELSE IF site = "forced"
           THEN \* line 79: get_valid_token is called again
                /\ pc' = "gvt"
                /\ site' = "after"
                /\ UNCHANGED <<headers, gvt, err>>
           ELSE \* line 49: return self._access_token
                /\ pc' = AfterToken(site)
                /\ headers' = r.access_token
                /\ gvt' = [gvt EXCEPT !.status = "returned", !.ret = r.access_token,
                                      !.fetched = resp.token]
                /\ UNCHANGED <<site, err>>
    /\ UNCHANGED <<now, sent, resps, tokenReqs, concVars, turnVars>>

\* lines 71-72 and 81-82: client.request(method, url, headers=headers)
Send ==
    /\ pc \in {"send1", "send2"}
    /\ sent' = Append(sent, headers)
    /\ pc' = IF pc = "send1" THEN "resp1" ELSE "resp2"
    /\ UNCHANGED <<authState, site, headers, resps, tokenReqs, gvt, err, concVars, turnVars>>

\* lines 74-89: a response arrives
Response ==
    /\ pc \in {"resp1", "resp2"}
    /\ \E status \in Statuses :
        LET attempt == IF pc = "resp1" THEN 1 ELSE 2
            next == NextAfterResponse(attempt, status) IN
        /\ resps' = Append(resps, status)
        /\ pc' = next
        /\ err' = IF next = "raised" THEN "ApiError" ELSE err
    /\ UNCHANGED <<authState, site, headers, sent, tokenReqs, gvt, concVars, turnVars>>

\* time passes while a request is in flight or between two calls
TickAuth ==
    /\ pc \in {"idle", "fetch", "resp1", "resp2"}
    /\ Tick
    /\ UNCHANGED <<reqVars, concVars, turnVars>>

\* the call is over; the client is ready for the next one
Finish ==
    /\ pc \in {"returned", "raised"}
    /\ pc' = "idle"
    /\ UNCHANGED <<authState, site, headers, sent, resps, tokenReqs, gvt, err, concVars, turnVars>>

(***************************************************************************)
(* auth_manager.py: two tasks in get_valid_token (SpecConc)                *)
(***************************************************************************)
Callers == {1, 2}

Other(c) == CHOOSE d \in Callers : d # c

\* lines 45-46: a caller finds the cached token valid and returns it
CGetCached(c) ==
    /\ cpc[c] = "idle"
    /\ TokenIsValid(access_token, expires_at, now)
    /\ cseen' = [cseen EXCEPT ![c] = "valid"]
    /\ cret' = [cret EXCEPT ![c] = access_token]
    /\ cpc' = [cpc EXCEPT ![c] = "done"]
    /\ UNCHANGED <<authState, reqVars, turnVars, creqs, overlap>>

\* lines 45, 48, 70: a caller finds no valid token and sends the token
\* request; nothing makes it wait for a request another caller has in flight
CGetStale(c) ==
    /\ cpc[c] = "idle"
    /\ ~TokenIsValid(access_token, expires_at, now)
    /\ cseen' = [cseen EXCEPT ![c] = "stale"]
    /\ creqs' = [creqs EXCEPT ![c] = 1]
    /\ cpc' = [cpc EXCEPT ![c] = "fetch"]
    /\ overlap' = (overlap \/ cpc[Other(c)] = "fetch")
    /\ UNCHANGED <<authState, reqVars, turnVars, cret>>

\* lines 70-83: the caller's token response arrives
CFetchResponse(c) ==
    /\ cpc[c] = "fetch"
    /\ \E resp \in TokenResponses :
        LET r == FetchNewToken(resp, access_token, expires_at, now) IN
        /\ access_token' = r.access_token
        /\ expires_at' = r.expires_at
        /\ cpc' = [cpc EXCEPT ![c] = IF r.raised THEN "raised" ELSE "closing"]
    /\ UNCHANGED <<now, reqVars, turnVars, cseen, creqs, cret, overlap>>

\* line 49, after the async with of line 69 has closed the client
CReturn(c) ==
    /\ cpc[c] = "closing"
    /\ cret' = [cret EXCEPT ![c] = access_token]
    /\ cpc' = [cpc EXCEPT ![c] = "done"]
    /\ UNCHANGED <<authState, reqVars, turnVars, cseen, creqs, overlap>>

\* the caller's call is over; it may call again
CFinish(c) ==
    /\ cpc[c] \in {"done", "raised"}
    /\ cpc' = [cpc EXCEPT ![c] = "idle"]
    /\ cseen' = [cseen EXCEPT ![c] = "none"]
    /\ creqs' = [creqs EXCEPT ![c] = 0]
    /\ cret' = [cret EXCEPT ![c] = NoToken]
    /\ overlap' = FALSE
    /\ UNCHANGED <<authState, reqVars, turnVars>>

\* time passes while a token request is in flight or nobody is calling
TickConc ==
    /\ \/ \E c \in Callers : cpc[c] = "fetch"
       \/ \A c \in Callers : cpc[c] = "idle"
    /\ Tick
    /\ UNCHANGED <<reqVars, turnVars, concVars>>

InitAuthState ==
    /\ access_token = NoToken
    /\ expires_at = 0
    /\ now = 0

InitReq ==
    /\ pc = "idle"
    /\ site = "first"
    /\ headers = NoToken
    /\ sent = <<>>
    /\ resps = <<>>
    /\ tokenReqs = <<>>
    /\ gvt = NoGvt
    /\ err = ""

InitConc ==
    /\ cpc = [c \in {1, 2} |-> "idle"]
    /\ cseen = [c \in {1, 2} |-> "none"]
    /\ creqs = [c \in {1, 2} |-> 0]
    /\ cret = [c \in {1, 2} |-> NoToken]
    /\ overlap = FALSE

vars == <<authState, reqVars, concVars, turnVars>>

\* the variables of the turn, at rest
InitTurnIdle ==
    /\ ctx = TRUE
    /\ mpc = "start"
    /\ session_id = ""
    /\ calls = <<>>
    /\ full_response = <<>>
    /\ notices = <<>>
    /\ elicited = <<>>
    /\ ended = <<>>
    /\ ctxlog = <<>>
    /\ pending = ""

InitAuth == InitAuthState /\ InitReq /\ InitConc /\ InitTurnIdle

NextAuth ==
    \/ Call
    \/ GetValidTokenCached
    \/ GetValidTokenStale
    \/ ForcedFetch
    \/ FetchResponse
    \/ Send
    \/ Response
    \/ TickAuth
    \/ Finish

SpecAuth == InitAuth /\ [][NextAuth]_vars

NextConc ==
    \/ \E c \in Callers : CGetCached(c)
    \/ \E c \in Callers : CGetStale(c)
    \/ \E c \in Callers : CFetchResponse(c)
    \/ \E c \in Callers : CReturn(c)
    \/ \E c \in Callers : CFinish(c)
    \/ TickConc

SpecConc == InitAuth /\ [][NextConc]_vars

(***************************************************************************)
(* agentforce_client.py: the lines of a response stream                    *)
(*                                                                         *)
(* A line is a sequence of characters.  A complete JSON text is one        *)
(* element, named by what it holds; it begins with "{" and so is none of   *)
(* the characters lstrip("data:") removes.                                 *)
(***************************************************************************)
\* the JSON texts the server may send
JsonTexts == {"J_text", "J_inform", "J_progress", "J_inquire", "J_nomsg"}

\* json.loads of each JSON text: the parsed payload
Payload(j) ==
    CASE j = "J_text" ->
            [has_message |-> TRUE, type |-> "TextChunk", message |-> "Hi", result |-> ""]
      [] j = "J_inform" ->
            [has_message |-> TRUE, type |-> "Inform", message |-> "", result |-> "a1"]
      [] j = "J_progress" ->
            [has_message |-> TRUE, type |-> "ProgressIndicator", message |-> "Working",
             result |-> ""]
      [] j = "J_inquire" ->
            [has_message |-> TRUE, type |-> "Inquire", message |-> "Which city?",
             result |-> ""]
      [] OTHER ->
            [has_message |-> FALSE, type |-> "", message |-> "", result |-> ""]

DataPrefix == <<"d", "a", "t", "a", ":">>

\* the lines the server may send on a response stream
SampleLines ==
    {<<>>, <<"i", "d", ":", "7">>}
    \cup {DataPrefix \o <<" ", j>> : j \in JsonTexts}
    \cup {DataPrefix \o <<" ", "not-json">>}
    \cup {DataPrefix \o DataPrefix \o <<" ", "J_text">>}

\* answers the elicitation provider may accept with
ElicitData == {"Paris"}
\* actions of an elicitation that is not accepted
RefuseActions == {"decline", "cancel"}
\* the query of the turn and the session the service opens for it
UserQuery == "q0"
SessionIds == {"s1"}

\* str.startswith
StartsWith(line, prefix) ==
    Len(line) >= Len(prefix) /\ SubSeq(line, 1, Len(prefix)) = prefix

RECURSIVE LStrip(_, _)
\* str.lstrip(chars): drops every leading character that is in chars
LStrip(text, chars) ==
    IF text # <<>> /\ Head(text) \in chars THEN LStrip(Tail(text), chars) ELSE text

RECURSIVE RStrip(_, _)
RStrip(text, chars) ==
    IF text # <<>> /\ text[Len(text)] \in chars
    THEN RStrip(SubSeq(text, 1, Len(text) - 1), chars)
    ELSE text

\* str.strip(): whitespace off both ends
Strip(text) == RStrip(LStrip(text, {" "}), {" "})

\* json.loads: ok = FALSE stands for JSONDecodeError
JsonLoads(text) ==
    IF Len(text) = 1 /\ text[1] \in JsonTexts
    THEN [ok |-> TRUE, value |-> Payload(text[1])]
    ELSE [ok |-> FALSE, value |-> Payload("J_nomsg")]

\* json.dumps(result, indent=indent) of the result the Inform sample carries
JsonDumps(result, indent) ==
    IF indent = 2 THEN "{\n  \"a\": 1\n}" ELSE "{\"a\": 1}"

\* line 150: line.lstrip("data:").strip()
Remainder(line) == Strip(LStrip(line, {"d", "a", "t", ":"}))

\* lines 148-153 and 178-181: what a line is dispatched as
EventOf(line) ==
    IF ~StartsWith(line, DataPrefix) THEN [kind |-> "ignored", p |-> Payload("J_nomsg")]
    ELSE LET parsed == JsonLoads(Remainder(line)) IN
         IF ~parsed.ok THEN [kind |-> "bad_json", p |-> parsed.value]
         ELSE IF ~parsed.value.has_message THEN [kind |-> "no_message", p |-> parsed.value]
         ELSE [kind |-> parsed.value.type, p |-> parsed.value]

\* lines 154 and 158: the string a TextChunk or an Inform event yields, as the
\* pieces it is concatenated from
FragmentOf(ev) ==
    IF ev.kind = "TextChunk" THEN <<ev.p.message>>
    ELSE <<"\n\n", JsonDumps(ev.p.result, 2)>>

\* line 169: f"\n\n{elicitation.data}\n\n"
AnswerFragment(data) == <<"\n\n", data, "\n\n">>

\* main.py 88, 91: the error chunk
ErrorFragment(e) ==
    <<"\n[ERROR: ", "An error occurred during Agentforce operation: ", e, "]">>

(***************************************************************************)
(* agentforce_client.py: stream_message (Spec)                             *)
(***************************************************************************)
Terminal == {"ended", "raised", "closed"}

\* the stream_message call that is running: the innermost one not yet over
Current ==
    LET live == {i \in 1..Len(calls) : calls[i].status \notin Terminal} IN
    IF live = {} THEN 0 ELSE CHOOSE i \in live : \A j \in live : j <= i

RECURSIVE Chain(_)
\* a call and the calls that iterate over it at line 170, up to the first send
Chain(c) == IF c = 0 THEN {} ELSE {c} \cup Chain(calls[c].parent)

\* lines read so far by every call of the turn
Arrived ==
    LET RECURSIVE Sum(_)
        Sum(n) == IF n = 0 THEN 0 ELSE Len(calls[n].lines) + Sum(n - 1)
    IN Sum(Len(calls))

\* line 115: a call of stream_message
NewCall(session, message, parent, line) ==
    [session |-> session, msg |-> message, parent |-> parent, from |-> line,
     status |-> "token", lines |-> <<>>, frags |-> <<>>, http |-> <<>>, code |-> 0]

Forward_ForgetOuter(c, chunk, cs) ==
    [i \in 1..Len(cs) |->
        IF i = c THEN [cs[i] EXCEPT !.frags = Append(@, chunk)] ELSE cs[i]]

\* lines 170-171: a chunk a call yields is yielded again by every call that
\* iterates over it
Forward(c, chunk, cs) ==
    [i \in 1..Len(cs) |->
        IF i \in Chain(c) THEN [cs[i] EXCEPT !.frags = Append(@, chunk)] ELSE cs[i]]

Accumulate_Prepend(response, chunk) == <<chunk>> \o response

\* main.py 128-129 (and 82): the consumer appends each chunk as it arrives
Accumulate(response, chunk) == Append(response, chunk)

Continuation_NoSession(c, data) == NewCall("", data, c, Len(calls[c].lines))

\* line 170: self.stream_message(session_id, elicitation.data, ctx)
Continuation(c, data) == NewCall(calls[c].session, data, c, Len(calls[c].lines))

AfterChild_NeverResumes == "child"

\* lines 170-171, then 151 and 146: when the recursive call is exhausted the
\* for loops of the outer call go on with its next line
AfterChild == "listen"

\* a call returns (its generator is exhausted): the call iterating over it resumes
ReturnFrom(c, cs) ==
    [i \in 1..Len(cs) |->
        IF i = c THEN [cs[i] EXCEPT !.status = "ended"]
        ELSE IF i = cs[c].parent THEN [cs[i] EXCEPT !.status = AfterChild]
        ELSE cs[i]]

\* an exception leaves every running call: stream_message catches only
\* JSONDecodeError, which none of them raises
Unwind(how, cs) ==
    [i \in 1..Len(cs) |->
        IF cs[i].status \in Terminal THEN cs[i] ELSE [cs[i] EXCEPT !.status = how]]

Caught_Unhandled == "escaped"

\* main.py 87 (with a Context) or the direct caller: where an exception lands
Caught == IF ctx THEN "except" ELSE "escaped"

\* main.py 85, 93 (with a Context) or the direct caller: the first send is over
Completed == IF ctx THEN "finally" ELSE "done"

\* the position of the turn after call c has returned
AfterReturn(c) == IF calls[c].parent = 0 THEN Completed ELSE mpc

\* ctx.info(...) of main.py 85, when the first send has returned
CompletedLog(c) ==
    IF calls[c].parent = 0 /\ ctx THEN Append(ctxlog, "info:completed") ELSE ctxlog

\* lines 135-140: the token for the stream request; get_valid_token returns
\* it or raises the authentication error
StreamToken ==
    /\ mpc = "stream"
    /\ Current # 0
    /\ calls[Current].status = "token"
    /\ \E ok \in BOOLEAN :
        IF ok
        THEN /\ calls' = [calls EXCEPT ![Current].status = "open",
                                       ![Current].http = Append(@, "token")]
             /\ mpc' = mpc
             /\ pending' = pending
        ELSE /\ calls' = Unwind("raised", [calls EXCEPT ![Current].http = Append(@, "token")])
             /\ mpc' = Caught
             /\ pending' = "AuthError"
    /\ UNCHANGED <<authAll, ctx, session_id, full_response, notices, elicited, ended, ctxlog>>

AfterStreamStatus_RetryOn401(status) ==
    IF IsSuccess(status) THEN "listen"
    ELSE IF status = Unauthorized THEN "token" ELSE "raised"

\* line 145: response.raise_for_status() is all that looks at the status of
\* the streaming response; 401 is raised like any other failure
AfterStreamStatus(status) == IF IsSuccess(status) THEN "listen" ELSE "raised"

\* lines 143-145: the stream request is sent and its status line arrives
StreamOpen ==
    /\ mpc = "stream"
    /\ Current # 0
    /\ calls[Current].status = "open"
    /\ \E status \in Statuses :
        LET sent1 == [calls EXCEPT ![Current].http = Append(@, "stream"),
                                   ![Current].code = status]
            after == AfterStreamStatus(status)
        IN IF after # "raised"
           THEN /\ calls' = [sent1 EXCEPT ![Current].status = after]
                /\ mpc' = mpc
                /\ pending' = pending
           ELSE /\ calls' = Unwind("raised", sent1)
                /\ mpc' = Caught
                /\ pending' = "HTTPStatusError"
    /\ UNCHANGED <<authAll, ctx, session_id, full_response, notices, elicited, ended, ctxlog>>

\* the next line of the running call's response stream, and what it is
Reads(line, kinds) ==
    /\ mpc = "stream"
    /\ Current # 0
    /\ calls[Current].status = "listen"
    /\ Arrived < MaxLines
    /\ line \in SampleLines
    /\ EventOf(line).kind \in kinds

\* lines 146-148, 152, 178-181: a line that is not a data: line, whose JSON
\* does not parse, or whose payload has no message key
LineSkipped ==
    \E line \in SampleLines :
        /\ Reads(line, {"ignored", "bad_json", "no_message"})
        /\ calls' = [calls EXCEPT ![Current].lines = Append(@, line)]
        /\ UNCHANGED <<authAll, ctx, mpc, session_id, full_response, notices, elicited,
                       ended, ctxlog, pending>>

\* lines 153-158: a TextChunk or an Inform event yields its chunk, which goes
\* up through every enclosing call to the consumer
LineYields ==
    \E line \in SampleLines :
        /\ Reads(line, {"TextChunk", "Inform"})
        /\ LET c == Current
               chunk == [text |-> FragmentOf(EventOf(line)), call |-> c,
                         line |-> Len(calls[c].lines) + 1, arr |-> Arrived + 1]
           IN /\ calls' = Forward(c, chunk, [calls EXCEPT ![c].lines = Append(@, line)])
              /\ full_response' = Accumulate(full_response, chunk)
        /\ UNCHANGED <<authAll, ctx, mpc, session_id, notices, elicited, ended, ctxlog,
                       pending>>

ProgressNotice_Unguarded(attached, ns, n) == Append(ns, n)

\* lines 160-161: if ctx: await ctx.info(...)
ProgressNotice(attached, ns, n) == IF attached THEN Append(ns, n) ELSE ns

\* lines 159-161: a ProgressIndicator event goes to ctx.info when a Context
\* is attached
LineProgress ==
    \E line \in SampleLines :
        /\ Reads(line, {"ProgressIndicator"})
        /\ calls' = [calls EXCEPT ![Current].lines = Append(@, line)]
        /\ notices' = ProgressNotice(ctx, notices,
                [text |-> EventOf(line).p.message, call |-> Current,
                 line |-> Len(calls[Current].lines) + 1])
        /\ UNCHANGED <<authAll, ctx, mpc, session_id, full_response, elicited, ended,
                       ctxlog, pending>>

InquireNext_Unguarded(attached) == "elicit"

\* line 165: if ctx: the call suspends in ctx.elicit; there is no else, so
\* without a Context the loop goes on
InquireNext(attached) == IF attached THEN "elicit" ELSE "listen"

\* lines 162-166: an Inquire event; with a Context the call suspends in
\* ctx.elicit, without one nothing happens
LineInquire ==
    \E line \in SampleLines :
        /\ Reads(line, {"Inquire"})
        /\ calls' = [calls EXCEPT ![Current].lines = Append(@, line),
                                  ![Current].status = InquireNext(ctx)]
        /\ UNCHANGED <<authAll, ctx, mpc, session_id, full_response, notices, elicited,
                       ended, ctxlog, pending>>

\* the record of an answered elicitation
Elicitation(c, action, data) ==
    [call |-> c, line |-> Len(calls[c].lines), action |-> action, data |-> data,
     at |-> Len(calls[c].frags), seen |-> Len(full_response)]

\* lines 167-170: accept; the answer is yielded and the recursive call begins
ElicitAccept ==
    /\ mpc = "stream"
    /\ Current # 0
    /\ calls[Current].status = "elicit"
    /\ Len(calls) < MaxCalls
    /\ \E data \in ElicitData :
        LET c == Current
            chunk == [text |-> AnswerFragment(data), call |-> c,
                      line |-> Len(calls[c].lines), arr |-> Arrived]
        IN /\ calls' = Append(Forward(c, chunk, [calls EXCEPT ![c].status = "child"]),
                              Continuation(c, data))
           /\ full_response' = Accumulate(full_response, chunk)
           /\ elicited' = Append(elicited, Elicitation(c, "accept", data))
    /\ UNCHANGED <<authAll, ctx, mpc, session_id, notices, ended, ctxlog, pending>>

\* lines 172-176: decline, or any other action: return
ElicitRefuse ==
    /\ mpc = "stream"
    /\ Current # 0
    /\ calls[Current].status = "elicit"
    /\ \E action \in RefuseActions :
        elicited' = Append(elicited, Elicitation(Current, action, ""))
    /\ calls' = ReturnFrom(Current, calls)
    /\ mpc' = AfterReturn(Current)
    /\ ctxlog' = CompletedLog(Current)
    /\ UNCHANGED <<authAll, ctx, session_id, full_response, notices, ended, pending>>

Cancelled_NoCleanup == "escaped"

\* main.py 87, 93: a CancelledError is not an Exception, so the except block
\* lets it pass and the finally block runs while it unwinds
Cancelled == "finally"

\* line 166: the task is cancelled while suspended in ctx.elicit
ElicitCancelled ==
    /\ mpc = "stream"
    /\ Current # 0
    /\ calls[Current].status = "elicit"
    /\ calls' = Unwind("closed", calls)
    /\ pending' = "CancelledError"
    /\ mpc' = Cancelled
    /\ UNCHANGED <<authAll, ctx, session_id, full_response, notices, elicited, ended,
                   ctxlog>>

\* line 146: the response stream ends; the call returns
StreamEnds ==
    /\ mpc = "stream"
    /\ Current # 0
    /\ calls[Current].status = "listen"
    /\ calls' = ReturnFrom(Current, calls)
    /\ mpc' = AfterReturn(Current)
    /\ ctxlog' = CompletedLog(Current)
    /\ UNCHANGED <<authAll, ctx, session_id, full_response, notices, elicited, ended,
                   pending>>

\* line 146: reading the response stream fails
StreamBreaks ==
    /\ mpc = "stream"
    /\ Current # 0
    /\ calls[Current].status = "listen"
    /\ calls' = Unwind("raised", calls)
    /\ mpc' = Caught
    /\ pending' = "ReadError"
    /\ UNCHANGED <<authAll, ctx, session_id, full_response, notices, elicited, ended,
                   ctxlog>>

(***************************************************************************)
(* main.py: ask_agentforce_stream and run_ask_agentforce_stream (Spec)     *)
(***************************************************************************)
\* lines 73-80: start_session returns a session id, returns None (the
\* response has no sessionId), or raises
StartSession ==
    /\ mpc = "start"
    /\ ctx
    /\ \/ \E sid \in SessionIds \cup {""} :
            /\ session_id' = sid
            /\ calls' = <<NewCall(sid, UserQuery, 0, 0)>>
            /\ mpc' = "stream"
            /\ ctxlog' = ctxlog \o <<"info:starting", "info:session">>
            /\ pending' = pending
       \/ /\ pending' = "ApiError"
          /\ mpc' = "except"
          /\ ctxlog' = Append(ctxlog, "info:starting")
          /\ UNCHANGED <<session_id, calls>>
    /\ UNCHANGED <<authAll, ctx, full_response, notices, elicited, ended>>

AfterExcept_NoCleanup == "done"

\* line 93: the finally block follows the except block
AfterExcept == "finally"

\* lines 87-91: the exception becomes the error chunk
ExceptHandler ==
    /\ mpc = "except"
    /\ ctxlog' = Append(ctxlog, "error")
    /\ full_response' = Accumulate(full_response,
            [text |-> ErrorFragment(pending), call |-> 0, line |-> 0, arr |-> 0])
    /\ pending' = ""
    /\ mpc' = AfterExcept
    /\ UNCHANGED <<authAll, ctx, session_id, calls, notices, elicited, ended>>

\* line 94: if session_id
ShouldEnd(sid) == sid # ""

\* where the generator leaves the finally block: back to the consumer, which
\* returns full_response (line 133), or out with the pending exception
AfterFinally == IF pending = "" THEN "done" ELSE "escaped"

EndSessionResult_Propagates(ok) ==
    [log |-> IF ok THEN "info:ended" ELSE "warning:end", raised |-> ~ok]

\* lines 96-100: end_session inside its own try; a success is logged with
\* ctx.info, a failure is caught by "except Exception" and logged with
\* ctx.warning, and nothing is raised or yielded
EndSessionResult(ok) ==
    [log |-> IF ok THEN "info:ended" ELSE "warning:end", raised |-> FALSE]

\* stream requests sent so far by the calls of the turn
StreamRequests ==
    LET RECURSIVE Sum(_)
        Sum(n) == IF n = 0 THEN 0
                  ELSE Cardinality({i \in 1..Len(calls[n].http) : calls[n].http[i] = "stream"})
                       + Sum(n - 1)
    IN Sum(Len(calls))

\* lines 93-100: end_session is attempted; its failure becomes a warning
Finally ==
    /\ mpc = "finally"
    /\ IF ShouldEnd(session_id)
       THEN \E ok \in BOOLEAN :
                LET r == EndSessionResult(ok) IN
                /\ ended' = Append(ended, [session |-> session_id, ok |-> ok,
                                           result |-> full_response,
                                           reqs |-> StreamRequests])
                /\ ctxlog' = Append(ctxlog, r.log)
                /\ pending' = IF r.raised THEN "EndError" ELSE pending
                /\ mpc' = IF r.raised THEN "escaped" ELSE AfterFinally
       ELSE /\ mpc' = AfterFinally
            /\ UNCHANGED <<ended, ctxlog, pending>>
    /\ UNCHANGED <<authAll, ctx, session_id, calls, full_response, notices, elicited>>

\* the turn starts either in the tool, with its Context, or in a caller that
\* drives stream_message on an open session without one
InitTurn ==
    /\ full_response = <<>>
    /\ notices = <<>>
    /\ elicited = <<>>
    /\ ended = <<>>
    /\ ctxlog = <<>>
    /\ pending = ""
    /\ \/ /\ ctx = TRUE
          /\ mpc = "start"
          /\ session_id = ""
          /\ calls = <<>>
       \/ /\ ctx = FALSE
          /\ mpc = "stream"
          /\ session_id \in SessionIds
          /\ calls = <<NewCall(session_id, UserQuery, 0, 0)>>

Init == InitAuthState /\ InitReq /\ InitConc /\ InitTurn

Next ==
    \/ StartSession
    \/ StreamToken
    \/ StreamOpen
    \/ LineSkipped
    \/ LineYields
    \/ LineProgress
    \/ LineInquire
    \/ ElicitAccept
    \/ ElicitRefuse
    \/ ElicitCancelled
    \/ StreamEnds
    \/ StreamBreaks
    \/ ExceptHandler
    \/ Finally

Spec == Init /\ [][Next]_vars

\* the turn under its scheduling: the event loop resumes the coroutine whenever
\* what it awaits (a token, a status line, a line or the end of a stream, the
\* answer to an elicitation, end_session) has come, and each of these comes
SpecLive == Init /\ [][Next]_vars /\ WF_vars(Next)

(***************************************************************************)
(* Properties of the token cache and of the authenticated request          *)
(***************************************************************************)
\* the last get_valid_token call has come back (returned or raised)
GvtOver ==
    \/ gvt.status = "returned" /\ pc \in {"send1", "send2"}
    \/ gvt.status = "raised" /\ pc = "raised"

\* the token request log holds exactly k more entries than when the call began
GvtRequests(k) == Len(tokenReqs) = gvt.n0 + k

C2_AtMostOneRetry ==
    /\ Len(sent) <= 2
    /\ Len(sent) = 2 => Len(resps) >= 1 /\ resps[1] = 401
    /\ (Len(resps) = 2 /\ resps[2] \notin 200..299) =>
            /\ pc \in {"raised", "idle"}
            /\ err = "ApiError"
            /\ Len(sent) = 2
            /\ \A i \in 1..Len(tokenReqs) : tokenReqs[i].at < 2

\* the retried request was answered 401 again and the call has failed
C2_Witness ==
    /\ pc = "raised"
    /\ Len(resps) = 2
    /\ resps[1] = 401 /\ resps[2] = 401

\* token requests sent between the first API request and its retry
RefreshesAfter401 == {i \in 1..Len(tokenReqs) : tokenReqs[i].at = 1}

\* C3: a 401 on the first response is followed by exactly one request to the
\* token endpoint, whatever expires_in it answers, and then by one retry whose
\* Authorization header carries the refreshed token.
C3_OneRefreshOneRetry ==
    Len(sent) = 2 =>
        /\ Cardinality(RefreshesAfter401) = 1
        /\ sent[2] = access_token

\* C4: two callers that are in get_valid_token together and both find no
\* valid token make one token request between them.
C4_SingleFlight ==
    (overlap /\ cseen[1] = "stale" /\ cseen[2] = "stale") => creqs[1] + creqs[2] = 1

(***************************************************************************)
(* Properties of the stream processor and of the turn                      *)
(***************************************************************************)
\* the texts of a sequence of chunks
Texts(chunks) == [k \in 1..Len(chunks) |-> chunks[k].text]

\* the remainder of a data: line as the format defines it: the line without
\* its data: prefix
RefRemainder(line) == SubSeq(line, Len(DataPrefix) + 1, Len(line))

\* a data: line whose remainder is not valid JSON
Malformed(line) ==
    /\ StartsWith(line, DataPrefix)
    /\ ~\E j \in JsonTexts : RefRemainder(line) \in {<<j>>, <<" ", j>>, <<j, " ">>, <<" ", j, " ">>}

\* the event a line carries, by the format: "" for a line that carries none
RefType(line) ==
    IF \E j \in JsonTexts : line \in {DataPrefix \o <<j>>, DataPrefix \o <<" ", j>>}
    THEN LET j == line[Len(line)] IN
         CASE j = "J_text" -> "TextChunk"
           [] j = "J_inform" -> "Inform"
           [] j = "J_progress" -> "ProgressIndicator"
           [] j = "J_inquire" -> "Inquire"
           [] OTHER -> ""
    ELSE ""

\* the fragment the reference decoding gives for one line, <<>> for none
RefFragment(line) ==
    CASE RefType(line) = "TextChunk" -> <<<<"Hi">>>>
      [] RefType(line) = "Inform" -> <<<<"\n\n", "{\n  \"a\": 1\n}">>>>
      [] OTHER -> <<>>

RECURSIVE RefDecode(_)
\* the reference decoding of a sequence of lines
RefDecode(lines) ==
    IF lines = <<>> THEN <<>>
    ELSE RefDecode(SubSeq(lines, 1, Len(lines) - 1)) \o RefFragment(lines[Len(lines)])

NoInquire(lines) == \A k \in 1..Len(lines) : RefType(lines[k]) # "Inquire"

\* C5: for a sequence of lines with no Inquire event, the fragments of
\* stream_message are the reference decoding of the lines read: the message of
\* each TextChunk, two newlines and the indent-2 JSON of each Inform result,
\* in line order, and nothing for any other line.
C5_ReferenceDecoding ==
    \A c \in 1..Len(calls) :
        NoInquire(calls[c].lines) => Texts(calls[c].frags) = RefDecode(calls[c].lines)

\* the chunks call c yielded for its own line k
OwnChunks(c, k) ==
    {n \in 1..Len(calls[c].frags) : calls[c].frags[n].call = c /\ calls[c].frags[n].line = k}

\* C6: a data: line whose remainder is not valid JSON produces no fragment
\* and does not end or fail the sequence; the TextChunk and Inform lines
\* before and after it still have their fragments, in line order.
C6_MalformedLineSkipped ==
    \A c \in 1..Len(calls) :
        /\ \A k \in 1..Len(calls[c].lines) :
            /\ Malformed(calls[c].lines[k]) => OwnChunks(c, k) = {}
            /\ RefType(calls[c].lines[k]) \in {"TextChunk", "Inform"} =>
                    \E n \in OwnChunks(c, k) :
                        <<calls[c].frags[n].text>> = RefFragment(calls[c].lines[k])
        /\ \A m, n \in 1..Len(calls[c].frags) :
            (calls[c].frags[m].call = c /\ calls[c].frags[n].call = c /\ m < n) =>
                calls[c].frags[m].line <= calls[c].frags[n].line

\* the recursive calls opened for elicitation e
ContinuationsOf(e) ==
    {j \in 1..Len(calls) : calls[j].parent = e.call /\ calls[j].from = e.line}

\* C7: after an Inquire answered accept with data d, the next fragment of the
\* call is d between blank lines; a new stream_message call on the same
\* session with message d is opened, and its fragments follow in the call's
\* own sequence, in their order, all of them before the call completes.
C7_AcceptContinues ==
    \A n \in 1..Len(elicited) :
        LET e == elicited[n]
            outer == calls[e.call] IN
        e.action = "accept" =>
            /\ Len(outer.frags) > e.at
            /\ outer.frags[e.at + 1].text = <<"\n\n", e.data, "\n\n">>
            /\ Cardinality(ContinuationsOf(e)) = 1
            /\ \A j \in ContinuationsOf(e) :
                /\ calls[j].session = outer.session
                /\ calls[j].msg = e.data
                /\ Len(outer.frags) >= e.at + 1 + Len(calls[j].frags)
                /\ \A k \in 1..Len(calls[j].frags) :
                        outer.frags[e.at + 1 + k] = calls[j].frags[k]
                /\ outer.status = "ended" => calls[j].status = "ended"

\* an accepted answer whose continuation produced a fragment and ended, after
\* which the outer call completed
C7_Witness ==
    \E n \in 1..Len(elicited) :
        /\ elicited[n].action = "accept"
        /\ calls[elicited[n].call].status = "ended"
        /\ \E j \in ContinuationsOf(elicited[n]) :
            calls[j].status = "ended" /\ Len(calls[j].frags) > 0

\* C8: after an elicitation answered decline, or anything but accept, the
\* top-level caller receives no further fragment and no call fails, also when
\* the Inquire was met inside a recursive continuation.
C8_RefusalEndsTheTurn ==
    \A n \in 1..Len(elicited) :
        elicited[n].action # "accept" =>
            /\ Len(full_response) = elicited[n].seen
            /\ \A c \in 1..Len(calls) : calls[c].status # "raised"

\* the chunks the consumer received from the stream (all but the error chunk)
StreamChunks == SelectSeq(full_response, LAMBDA x : x.call # 0)

\* C9: the consumer receives the chunks in the order their lines arrived,
\* exactly as the first send yielded them; a chunk of a line that follows an
\* Inquire is received only when the continuation that Inquire opened is over
\* and every chunk of it has been received.
C9_ArrivalOrder ==
    /\ \A i, j \in 1..Len(StreamChunks) :
        i < j => StreamChunks[i].arr < StreamChunks[j].arr
    /\ calls # <<>> => StreamChunks = calls[1].frags
    /\ \A j \in 1..Len(full_response) :
        \A q \in 1..Len(calls) :
            (calls[q].parent = full_response[j].call /\ calls[q].from < full_response[j].line) =>
                /\ calls[q].status \in Terminal
                /\ \A k \in 1..Len(calls[q].frags) :
                    \E i \in 1..(j - 1) : full_response[i] = calls[q].frags[k]

\* the consumer has received the answer, a chunk of the continuation and then
\* a chunk of an outer line that follows the Inquire
C9_Witness ==
    \E j \in 1..Len(full_response) :
        \E q \in 1..Len(calls) :
            /\ calls[q].parent = full_response[j].call
            /\ calls[q].parent # 0
            /\ calls[q].from < full_response[j].line
            /\ Len(calls[q].frags) > 0

\* ask_agentforce_stream is over: it returned or an exception left it
TurnOver == ctx /\ mpc \in {"done", "escaped"}

\* C10: when start_session has returned a session, end_session has been
\* attempted for that session by the time ask_agentforce_stream is over, by
\* whichever path it ended: the stream completed, an elicitation was refused,
\* or an exception was raised while streaming.
C10_EndSessionAttempted ==
    (TurnOver /\ session_id # "") =>
        /\ Len(ended) = 1
        /\ ended[1].session = session_id

\* the turn had a session, delivered a chunk, failed while streaming and is over
C10_Witness ==
    /\ TurnOver
    /\ session_id # ""
    /\ Len(full_response) >= 2
    /\ full_response[Len(full_response)].call = 0
    /\ Len(ended) = 1
(***************************************************************************)
(* Properties of the end of the turn                                       *)
(***************************************************************************)
\* the error chunks of a response: the ones the except block yields
ErrorChunks(response) == {i \in 1..Len(response) : response[i].call = 0}

\* C11: a failure of end_session never changes the result of the turn. When
\* the turn is over, the response the consumer holds is exactly the response it
\* held when end_session was attempted, whether the attempt succeeded or
\* raised; after a failed attempt the last thing sent to the Context is the
\* warning, the except block has added no error chunk for it (error chunks
\* and ctx.error calls stay paired), and nothing escapes except a cancellation
\* that was already unwinding.
C11_EndFailureKeepsResult ==
    (TurnOver /\ ended # <<>>) =>
        /\ full_response = ended[1].result
        /\ ~ended[1].ok =>
            /\ ctxlog[Len(ctxlog)] = "warning:end"
            /\ Cardinality(ErrorChunks(full_response))
                 = Cardinality({i \in 1..Len(ctxlog) : ctxlog[i] = "error"})
            /\ pending \in {"", "CancelledError"}
            /\ (pending = "") <=> (mpc = "done")

\* end_session failed after chunks and after an error chunk, and the consumer
\* has its result
C11_Witness ==
    /\ ctx /\ mpc = "done"
    /\ ended # <<>> /\ ~ended[1].ok
    /\ Len(full_response) >= 2
    /\ ErrorChunks(full_response) # {}

\* start_session or the streaming send has failed with an exception
Failed ==
    \/ ctx /\ calls = <<>> /\ mpc # "start"
    \/ \E c \in 1..Len(calls) : calls[c].status = "raised"

\* C12: when start_session or the streaming send has failed (API error,
\* authentication error, failure while reading the stream), then from the
\* finally block on the turn has exactly one error chunk; it is the last chunk,
\* it follows every chunk the first send had yielded, in the order yielded, and
\* it carries the exception; nothing is left to raise, so the consumer returns
\* the accumulated response.
C12_FailureBecomesLastFragment ==
    (ctx /\ Failed /\ mpc \in {"finally", "done", "escaped"}) =>
        LET n == Len(full_response) IN
        /\ n >= 1
        /\ ErrorChunks(full_response) = {n}
        /\ \E e \in {"ApiError", "AuthError", "HTTPStatusError", "ReadError"} :
                full_response[n].text = ErrorFragment(e)
        /\ SubSeq(full_response, 1, n - 1)
             = (IF calls = <<>> THEN <<>> ELSE calls[1].frags)
        /\ pending = ""
        /\ mpc # "escaped"

\* the stream broke after two chunks; the consumer has them and the error chunk
C12_Witness ==
    /\ ctx /\ mpc = "done"
    /\ \E c \in 1..Len(calls) : calls[c].status = "raised" /\ Len(calls[c].lines) >= 1
    /\ Len(full_response) = 3
    /\ ErrorChunks(full_response) = {3}

(***************************************************************************)
(* Properties of the events of a stream                                    *)
(***************************************************************************)
\* call c has dispatched an event of one of its lines after line k: a chunk
\* of its own, a progress notice or an elicitation
DispatchedAfter(c, k) ==
    \/ \E n \in 1..Len(calls[c].frags) :
            calls[c].frags[n].call = c /\ calls[c].frags[n].line > k
    \/ \E n \in 1..Len(notices) : notices[n].call = c /\ notices[n].line > k
    \/ \E n \in 1..Len(elicited) : elicited[n].call = c /\ elicited[n].line > k
    \/ calls[c].status = "elicit" /\ Len(calls[c].lines) > k

\* C13: after an accepted Inquire, once the continuation has ended, the
\* outer call dispatches no event of a later line of its response stream: no
\* chunk, no progress notice and no elicitation comes from a line after the
\* Inquire line.
C13_OuterStreamAbandoned ==
    \A j \in 1..Len(calls) :
        (calls[j].parent # 0 /\ calls[j].status = "ended") =>
            ~DispatchedAfter(calls[j].parent, calls[j].from)

\* C14: when the turn was cancelled while a stream_message call was suspended
\* in ctx.elicit, then by the time the cancellation has left
\* ask_agentforce_stream, end_session has been attempted for the open
\* session, once, and the cancellation was not turned into an error chunk.
C14_CancelledStillEnds ==
    (/\ \E c \in 1..Len(calls) : calls[c].status = "closed"
     /\ mpc = "escaped"
     /\ session_id # "") =>
        /\ pending = "CancelledError"
        /\ Len(ended) = 1
        /\ ended[1].session = session_id
        /\ ErrorChunks(full_response) = {}

\* cancelled in the elicitation of a continuation, after chunks were produced
C14_Witness ==
    /\ mpc = "escaped" /\ pending = "CancelledError"
    /\ Len(calls) = 2 /\ calls[2].status = "closed" /\ calls[1].status = "closed"
    /\ Len(ended) = 1
    /\ Len(full_response) >= 2

\* the notices ctx.info has received for line k of call c
NoticesOf(c, k) == {n \in 1..Len(notices) : notices[n].call = c /\ notices[n].line = k}

\* call c reads a line in this step, and the line carries an event of type t
ReadsEvent(c, t) ==
    /\ Len(calls'[c].lines) = Len(calls[c].lines) + 1
    /\ RefType(calls'[c].lines[Len(calls'[c].lines)]) = t

\* C15: a ProgressIndicator line never produces a fragment. At every moment
\* each such line read has no chunk and, with a Context, exactly one notice
\* (its message), without one no notice at all; and the step that reads it
\* changes neither the response nor any call's fragments, asks nothing, opens
\* no stream and leaves the call listening for its next line.
C15_ProgressIsNotAFragment ==
    /\ [](\A c \in 1..Len(calls) : \A k \in 1..Len(calls[c].lines) :
            RefType(calls[c].lines[k]) = "ProgressIndicator" =>
                /\ OwnChunks(c, k) = {}
                /\ Cardinality(NoticesOf(c, k)) = (IF ctx THEN 1 ELSE 0)
                /\ \A n \in NoticesOf(c, k) : notices[n].text = "Working")
    /\ [][\A c \in 1..Len(calls) :
            ReadsEvent(c, "ProgressIndicator") =>
                /\ full_response' = full_response
                /\ Len(calls') = Len(calls)
                /\ \A i \in 1..Len(calls) : calls'[i].frags = calls[i].frags
                /\ calls'[c].status = "listen"
                /\ elicited' = elicited
                /\ Len(notices') = Len(notices) + (IF ctx THEN 1 ELSE 0)]_vars

\* with a Context: a progress line was forwarded and the same call went on to
\* yield the chunk of a later line
C15_Witness ==
    /\ ctx
    /\ \E n \in 1..Len(notices) : \E m \in 1..Len(full_response) :
            /\ full_response[m].call = notices[n].call
            /\ full_response[m].line > notices[n].line

(***************************************************************************)
(* Properties of the requests of a send                                    *)
(***************************************************************************)
\* s is t or a beginning of t
IsPrefix(s, t) == Len(s) <= Len(t) /\ s = SubSeq(t, 1, Len(s))

\* C16: a stream_message call asks get_valid_token once, before it opens
\* its stream, and sends at most one stream request; when the response to that
\* request is 401 it has sent exactly that one request and asked for a token
\* exactly once (no forced refresh, no retry), it has read no line, and the
\* failure has left it and every call iterating over it, to the caller of the
\* sequence.
C16_NoRetryOnStream401 ==
    \A c \in 1..Len(calls) :
        /\ IsPrefix(calls[c].http, <<"token", "stream">>)
        /\ calls[c].code = Unauthorized =>
            /\ calls[c].http = <<"token", "stream">>
            /\ calls[c].lines = <<>>
            /\ \A i \in Chain(c) : calls[i].status = "raised"
            /\ IF ctx THEN mpc \in {"except", "finally", "done"}
               ELSE mpc = "escaped" /\ pending = "HTTPStatusError"

\* the stream request of a continuation was answered 401 and the failure
\* reached the tool
C16_Witness ==
    /\ ctx /\ mpc = "done"
    /\ Len(calls) = 2 /\ calls[2].code = Unauthorized
    /\ calls[1].status = "raised"

\* every stream_message call of the turn is over, and so is the turn
AllOver ==
    /\ mpc \in {"done", "escaped"}
    /\ \A c \in 1..Len(calls) : calls[c].status \in Terminal

\* the elicitations answered accept
Accepted == {n \in 1..Len(elicited) : elicited[n].action = "accept"}

\* C17: the fragment sequence of a send is finite. The first send has never
\* yielded more chunks than lines were read plus elicitations accepted; with
\* streams that end and finitely many accepts every stream_message call
\* eventually terminates and stays terminated; and the step in which a response
\* stream ends while its call is listening (no Inquire pending) ends that call
\* normally, with nothing raised.
C17_SendTerminates ==
    /\ [](calls # <<>> => Len(calls[1].frags) <= Arrived + Cardinality(Accepted))
    /\ <>[]AllOver
    /\ [][StreamEnds => /\ calls'[Current].status = "ended"
                        /\ pending' = pending
                        /\ calls'[Current].frags = calls[Current].frags]_vars

\* a send with a continuation is over: both calls ended normally, the stream
\* of the outer one after more lines
C17_Witness ==
    /\ AllOver
    /\ Len(calls) = 2 /\ calls[1].status = "ended" /\ calls[2].status = "ended"
    /\ Len(calls[1].lines) > calls[2].from
    /\ full_response # <<>>

(***************************************************************************)
(* Properties of a failed token request                                    *)
(***************************************************************************)
\* C18: when _fetch_new_token has failed (non-2xx response, network failure,
\* malformed token response, access_token missing, expires_in unusable) and the
\* authentication error is raised, the cached token and the cached expiry are
\* both what they were when the token request was sent.
C18_FailedFetchKeepsCache ==
    (pc = "raised" /\ err = "AuthError" /\ tokenReqs # <<>>) =>
        LET q == tokenReqs[Len(tokenReqs)] IN
        /\ access_token = q.tok
        /\ expires_at = q.exp

(***************************************************************************)
(* Properties of the session of a turn                                     *)
(***************************************************************************)
\* C19: within one turn end_session is requested at most once, only after
\* start_session has returned, and for the session it returned; every
\* stream_message call of the turn, the first send and every continuation,
\* targets that session; and once end_session has been requested every call
\* is over and no stream request has been sent since.
C19_OneSessionPerTurn ==
    /\ Len(ended) <= 1
    /\ \A c \in 1..Len(calls) : calls[c].session = session_id
    /\ ended # <<>> =>
        /\ \E n \in 1..Len(ctxlog) : ctxlog[n] = "info:session"
        /\ session_id \in SessionIds
        /\ ended[1].session = session_id
        /\ \A c \in 1..Len(calls) : calls[c].status \in Terminal
        /\ StreamRequests = ended[1].reqs

\* end_session was requested after the first send and a continuation had each
\* sent their stream request on the session
C19_Witness ==
    /\ Len(ended) = 1
    /\ Len(calls) = 2
    /\ ended[1].reqs = 2
    /\ calls[2].session = ended[1].session
    /\ calls[2].lines # <<>>

(***************************************************************************)
(* Properties of a send without a Context                                  *)
(***************************************************************************)
\* C20: with no Context attached an Inquire event does nothing. At every
\* moment no elicitation has been invoked or answered, no continuation has
\* been opened and no Inquire line has a chunk; and the step that reads an
\* Inquire line changes neither the response nor the fragments, raises nothing,
\* does not end the sequence and leaves the call listening for the next line of
\* the same response stream.
C20_InquireWithoutContext ==
    /\ [](~ctx =>
            /\ elicited = <<>>
            /\ Len(calls) = 1
            /\ calls[1].status # "elicit"
            /\ \A k \in 1..Len(calls[1].lines) :
                    RefType(calls[1].lines[k]) = "Inquire" => OwnChunks(1, k) = {})
    /\ [][(~ctx /\ ReadsEvent(1, "Inquire")) =>
            /\ full_response' = full_response
            /\ calls'[1].frags = calls[1].frags
            /\ calls'[1].http = calls[1].http
            /\ calls'[1].status = "listen"
            /\ UNCHANGED <<mpc, pending, notices, elicited>>]_vars

\* without a Context: an Inquire line was read and the same stream went on
\* to yield the chunk of a later line
C20_Witness ==
    /\ ~ctx
    /\ \E k \in 1..Len(calls[1].lines) :
            /\ RefType(calls[1].lines[k]) = "Inquire"
            /\ \E m \in 1..Len(full_response) : full_response[m].line > k

====
